---- MODULE Spec2Model ----
(***************************************************************************)
(* State-machine model of src/iotex_price_bot.py: the IoTeXPriceBot class  *)
(* (price fetch with fallback, change computation, Telegram notification,  *)
(* bounded price history) and its two drivers, main() (one cycle, then     *)
(* exit) and run_continuous() (sleep loop).                                *)
(*                                                                         *)
(* Prices are integers in units of 1e-6 USD.  Python's None is the empty   *)
(* tuple and a present value v is the one-element tuple <<v>>.  A JSON     *)
(* field of a response is absent (None) or present (Some(v)).              *)
(***************************************************************************)
EXTENDS Integers, Sequences, FiniteSets, TLC

VARIABLES
    pc,              \* position of the process: "boot", "loop", "fetch", "send",
                     \* "returned", "raised", "sleep_interval", "sleep_cooldown",
                     \* "stopped", "crashed" or "exited"
    mode,            \* "none" before start, "single" (main) or "continuous"
    env,             \* what main found in os.environ: None until main has run
    previous_price,  \* self.previous_price: None or Some(price)
    price_history,   \* self.price_history: sequence of entries
    price_data,      \* run_price_check's local price_data: None or Some(snapshot)
    success,         \* run_price_check's result: "unset", "True" or "False"
    exit_code,       \* process exit status: None or Some(n)
    cycles,          \* number of run_price_check calls made so far
    now,             \* number of readings of datetime.now() taken so far
    requests,        \* HTTP requests issued in the current cycle, in order
    cg_resp,         \* what CoinGecko answered in the current cycle (None: not asked)
    dia_resp,        \* what DIA answered in the current cycle (None: not asked)
    cycle_start,     \* <<previous_price, price_history>> when the cycle began
    interrupted,     \* whether a KeyboardInterrupt has been delivered
    change_data,     \* run_price_check's local change_data: None or Some(change)
    message,         \* run_price_check's local message: None or Some(text)
    tg_resp,         \* what Telegram answered in the current cycle (None: not asked)
    delivered        \* whether the channel received this cycle's message

vars == <<pc, mode, env, previous_price, price_history, price_data, success,
          exit_code, cycles, now, requests, cg_resp, dia_resp, cycle_start,
          interrupted, change_data, message, tg_resp, delivered>>

botState == <<previous_price, price_history>>

----------------------------------------------------------------------------
(* Values *)

None == <<>>

Some(v) == <<v>>

\* dict.get(key, default) on a JSON field
Get(field, default) == IF field = None THEN default ELSE field[1]

\* the history bound of run_price_check
HISTORY_LIMIT == 100

\* number of cycles explored by Spec
MaxCycles == 3

\* number of cycles explored by SpecHist beyond HISTORY_LIMIT
Slack == 3

\* prices the sources may report, in 1e-6 USD
PriceSet == {0, 25000, 27500}

\* values the optional numeric fields may carry
MarketCapSet == {7}

VolumeSet == {8}

Change24hSet == {-1}

Opt(S) == {None} \cup {Some(v) : v \in S}

----------------------------------------------------------------------------
(* Responses of the three remote services *)

NoFields == [usd |-> None, usd_market_cap |-> None, usd_24h_vol |-> None,
             usd_24h_change |-> None]

\* transport_error: requests.get raised; http_error: raise_for_status raised;
\* unparsable: response.json() raised; not_container: JSON null/number/bool;
\* array: JSON list; no_asset_key: object without "iotex";
\* asset_not_object: "iotex" maps to a non-object; asset_object: "iotex" maps
\* to an object with the fields given.
CGFailureKinds == {"transport_error", "http_error", "unparsable", "not_container",
                   "array", "no_asset_key", "asset_not_object"}

CGObject(usd, cap, vol, chg) ==
    [kind |-> "asset_object", fields |->
        [usd |-> usd, usd_market_cap |-> cap, usd_24h_vol |-> vol,
         usd_24h_change |-> chg]]

CGResponses ==
    {[kind |-> k, fields |-> NoFields] : k \in CGFailureKinds}
    \cup {CGObject(usd, cap, vol, chg) :
            usd \in Opt(PriceSet), cap \in Opt(MarketCapSet),
            vol \in Opt(VolumeSet), chg \in Opt(Change24hSet)}

DIAFailureKinds == {"transport_error", "http_error", "unparsable", "not_container",
                    "array", "no_price_key"}

DIAObject(price, vol) ==
    [kind |-> "object", Price |-> Some(price), VolumeYesterdayUSD |-> vol]

DIAResponses ==
    {[kind |-> k, Price |-> None, VolumeYesterdayUSD |-> None] : k \in DIAFailureKinds}
    \cup {DIAObject(p, vol) : p \in PriceSet, vol \in Opt(VolumeSet)}

\* transport_error: requests.post raised; http_error: non-2xx; unparsable: body is
\* not JSON; not_object: JSON body that is no object; ok_true / ok_false /
\* ok_missing: a JSON object whose "ok" is true, false, absent.
TGResponses == {"transport_error", "http_error", "unparsable", "not_object",
                "ok_true", "ok_false", "ok_missing"}

----------------------------------------------------------------------------
(* The methods of IoTeXPriceBot that compute without touching bot state *)

Return(v) == [raised |-> FALSE, value |-> v]

Raise == [raised |-> TRUE, value |-> None]

get_iotex_price_coingecko(resp) ==
    IF resp.kind \in {"transport_error", "http_error", "unparsable"}
    THEN Return(None)                       \* the two except clauses
    ELSE IF resp.kind = "not_container"
    THEN Raise                              \* 'iotex' in data: TypeError
    ELSE IF resp.kind \in {"array", "no_asset_key"}
    THEN Return(None)                       \* 'iotex' not in data
    ELSE IF resp.kind = "asset_not_object"
    THEN Raise                              \* iotex_data.get: AttributeError
    ELSE Return(Some(
            [price      |-> Get(resp.fields.usd, 0),
             market_cap |-> Get(resp.fields.usd_market_cap, 0),
             volume_24h |-> Get(resp.fields.usd_24h_vol, 0),
             change_24h |-> Get(resp.fields.usd_24h_change, 0),
             source     |-> "CoinGecko"]))

\* a get_iotex_price_dia that insists on the volume field
get_iotex_price_dia_strict(resp) ==
    IF resp.kind # "object" \/ resp.VolumeYesterdayUSD = None
    THEN IF resp.kind = "not_container"
         THEN [raised |-> TRUE, value |-> <<>>]
         ELSE [raised |-> FALSE, value |-> <<>>]
    ELSE [raised |-> FALSE, value |-> <<
            [price      |-> resp.Price[1],
             market_cap |-> 0,
             volume_24h |-> resp.VolumeYesterdayUSD[1],
             change_24h |-> 0,
             source     |-> "DIA"]>>]

get_iotex_price_dia(resp) ==
    IF resp.kind \in {"transport_error", "http_error", "unparsable"}
    THEN Return(None)
    ELSE IF resp.kind = "not_container"
    THEN Raise                              \* 'Price' in data: TypeError
    ELSE IF resp.kind \in {"array", "no_price_key"}
    THEN Return(None)
    ELSE Return(Some(
            [price      |-> Get(resp.Price, 0),
             market_cap |-> 0,
             volume_24h |-> Get(resp.VolumeYesterdayUSD, 0),
             change_24h |-> 0,
             source     |-> "DIA"]))

\* get_current_price that answers a zero snapshot when both sources fail
get_current_price_default(cg, dia) ==
    LET first == get_iotex_price_coingecko(cg) IN
    IF first.raised \/ first.value # None
    THEN [raised |-> first.raised, value |-> first.value,
          asked |-> <<"CoinGecko">>]
    ELSE LET second == get_iotex_price_dia(dia) IN
         [raised |-> second.raised,
          value |-> IF second.raised \/ second.value # None
                    THEN second.value
                    ELSE Some([price |-> 0, market_cap |-> 0, volume_24h |-> 0,
                               change_24h |-> 0, source |-> "Unknown"]),
          asked |-> <<"CoinGecko", "DIA">>]

\* get_current_price that asks both sources before looking at either answer
get_current_price_eager(cg, dia) ==
    LET first == get_iotex_price_coingecko(cg)
        second == get_iotex_price_dia(dia) IN
    IF first.raised \/ first.value # None
    THEN [raised |-> first.raised, value |-> first.value,
          asked |-> <<"CoinGecko", "DIA">>]
    ELSE [raised |-> second.raised, value |-> second.value,
          asked |-> <<"CoinGecko", "DIA">>]

\* get_current_price: the outcome, with the requests it issued
get_current_price(cg, dia) ==
    LET first == get_iotex_price_coingecko(cg) IN
    IF first.raised \/ first.value # None
    THEN [raised |-> first.raised, value |-> first.value,
          asked |-> <<"CoinGecko">>]
    ELSE LET second == get_iotex_price_dia(dia) IN
         [raised |-> second.raised, value |-> second.value,
          asked |-> <<"CoinGecko", "DIA">>]

\* whether the channel can have received the message when Telegram's answer
\* reaches the bot as tg: an "ok": true answer follows delivery, a non-2xx or
\* "ok": false answer follows a rejected request, and an answer that was lost
\* or is unreadable (timeout, broken body) says nothing either way
Deliveries(tg) ==
    IF tg = "ok_true" THEN {TRUE}
    ELSE IF tg \in {"http_error", "ok_false"} THEN {FALSE}
    ELSE {FALSE, TRUE}

\* a send_telegram_message that takes any 2xx JSON object for success
send_telegram_message_status_only(tg) ==
    IF tg \in {"transport_error", "http_error", "unparsable"}
    THEN [raised |-> FALSE, value |-> FALSE]
    ELSE IF tg = "not_object"
    THEN [raised |-> TRUE, value |-> <<>>]
    ELSE [raised |-> FALSE, value |-> TRUE]

\* the POSTs one call of send_telegram_message issues
posts(tg) == <<"Telegram">>

send_telegram_message(tg) ==
    IF tg \in {"transport_error", "http_error", "unparsable"}
    THEN Return(FALSE)                      \* the two except clauses
    ELSE IF tg = "not_object"
    THEN Raise                              \* result.get: AttributeError
    ELSE Return(tg = "ok_true")             \* result.get('ok') truthy or not

\* one USD in price units
Unit == 10^6

Abs(n) == IF n < 0 THEN -n ELSE n

\* a percentage is kept exact, as the fraction num / den with den > 0
Fraction(n, d) == [num |-> n, den |-> d]

\* a calculate_price_change that reports a tie as a rise
calculate_price_change_tie_up(current_price) ==
    IF previous_price = None
    THEN [change_amount |-> 0, change_percentage |-> Fraction(0, 1),
          trend |-> "neutral"]
    ELSE LET previous == previous_price[1]
             change_amount == current_price - previous
         IN [change_amount |-> change_amount,
             change_percentage |->
                 IF previous > 0
                 THEN Fraction(change_amount * 100, previous)
                 ELSE Fraction(0, 1),
             trend |-> IF change_amount >= 0 THEN "up" ELSE "down"]

\* a calculate_price_change that guards the division with previous != 0
calculate_price_change_nonzero_guard(current_price) ==
    IF previous_price = None
    THEN [change_amount |-> 0, change_percentage |-> Fraction(0, 1),
          trend |-> "neutral"]
    ELSE LET previous == previous_price[1]
             change_amount == current_price - previous
         IN [change_amount |-> change_amount,
             change_percentage |->
                 IF previous # 0
                 THEN Fraction(change_amount * 100 * (IF previous < 0 THEN -1 ELSE 1),
                               Abs(previous))
                 ELSE Fraction(0, 1),
             trend |-> IF change_amount > 0 THEN "up"
                       ELSE IF change_amount < 0 THEN "down"
                       ELSE "neutral"]

calculate_price_change(current_price) ==
    IF previous_price = None
    THEN [change_amount |-> 0, change_percentage |-> Fraction(0, 1),
          trend |-> "neutral"]
    ELSE LET previous == previous_price[1]
             change_amount == current_price - previous
         IN [change_amount |-> change_amount,
             change_percentage |->
                 IF previous > 0
                 THEN Fraction(change_amount * 100, previous)
                 ELSE Fraction(0, 1),
             trend |-> IF change_amount > 0 THEN "up"
                       ELSE IF change_amount < 0 THEN "down"
                       ELSE "neutral"]

\* f"{x:.6f}" for x = p / Unit: sign, integer part, and the digits after the
\* point as a number of `decimals` digits
fixed6(p) ==
    [sign |-> IF p < 0 THEN "-" ELSE "", whole |-> Abs(p) \div Unit,
     frac |-> Abs(p) % Unit, decimals |-> 6]

\* the message is "$" followed by the price with six decimals
format_price_message(snapshot, change) == fixed6(snapshot.price)

----------------------------------------------------------------------------
(* Initial state *)

Init ==
    /\ pc = "boot"
    /\ mode = "none"
    /\ env = None
    /\ previous_price = None
    /\ price_history = <<>>
    /\ price_data = None
    /\ success = "unset"
    /\ exit_code = None
    /\ cycles = 0
    /\ now = 0
    /\ requests = <<>>
    /\ cg_resp = None
    /\ dia_resp = None
    /\ cycle_start = <<None, <<>>>>
    /\ interrupted = FALSE
    /\ change_data = None
    /\ message = None
    /\ tg_resp = None
    /\ delivered = FALSE

----------------------------------------------------------------------------
(* run_price_check *)

\* entry of run_price_check: its locals are fresh, no request has been issued
BeginCycle ==
    /\ pc' = "fetch"
    /\ cycles' = cycles + 1
    /\ price_data' = None
    /\ success' = "unset"
    /\ requests' = <<>>
    /\ cg_resp' = None
    /\ dia_resp' = None
    /\ change_data' = None
    /\ message' = None
    /\ tg_resp' = None
    /\ delivered' = FALSE

\* a truncation that keeps the head of the list: self.price_history[:100]
keep_first(h) ==
    IF Len(h) > HISTORY_LIMIT THEN SubSeq(h, 1, HISTORY_LIMIT) ELSE h

\* self.price_history[-100:] when the list has grown past the limit
keep_last(h) ==
    IF Len(h) > HISTORY_LIMIT
    THEN SubSeq(h, Len(h) - HISTORY_LIMIT + 1, Len(h))
    ELSE h

\* the entry run_price_check appends, stamped with the clock reading t
history_entry(snapshot, t) ==
    [timestamp |-> t, price |-> snapshot.price, source |-> snapshot.source]

\* a tail of run_price_check that records the price whatever the send reported
update_state_unguarded(ok, snapshot, t) ==
    <<Some(snapshot.price),
      keep_last(Append(price_history, history_entry(snapshot, t)))>>

\* a tail of run_price_check that moves the baseline before looking at the send
update_state_baseline_first(ok, snapshot, t) ==
    <<Some(snapshot.price),
      IF ok
      THEN keep_last(Append(price_history, history_entry(snapshot, t)))
      ELSE price_history>>

\* the tail of run_price_check: <<previous_price, price_history>> after the send
update_state(ok, snapshot, t) ==
    IF ok
    THEN <<Some(snapshot.price),
           keep_last(Append(price_history, history_entry(snapshot, t)))>>
    ELSE <<previous_price, price_history>>

\* run_price_check up to the point where the message is about to be sent
RunPriceCheck_Fetch(cg, dia) ==
    /\ pc = "fetch"
    /\ LET r == get_current_price(cg, dia) IN
       /\ requests' = requests \o r.asked
       /\ cg_resp' = Some(cg)
       /\ dia_resp' = IF Len(r.asked) = 2 THEN Some(dia) ELSE None
       /\ IF r.raised
          THEN /\ pc' = "raised"
               /\ UNCHANGED <<price_data, success, change_data, message>>
          ELSE IF r.value = None
          THEN /\ pc' = "returned"
               /\ success' = "False"
               /\ UNCHANGED <<price_data, change_data, message>>
          ELSE LET change == calculate_price_change(r.value[1].price) IN
               /\ pc' = "send"
               /\ price_data' = r.value
               /\ change_data' = Some(change)
               /\ message' = Some(format_price_message(r.value[1], change))
               /\ UNCHANGED success
    /\ UNCHANGED <<mode, env, previous_price, price_history, exit_code, cycles,
                   now, cycle_start, interrupted, tg_resp, delivered>>

\* run_price_check from the send to its return
RunPriceCheck_Send(tg, d) ==
    /\ pc = "send"
    /\ LET r == send_telegram_message(tg)
           ok == ~r.raised /\ r.value
           after == update_state(ok, price_data[1], now + 1)
       IN
       /\ requests' = requests \o posts(tg)
       /\ tg_resp' = Some(tg)
       /\ delivered' = d
       /\ previous_price' = after[1]
       /\ price_history' = after[2]
       /\ now' = IF ok THEN now + 1 ELSE now
       /\ IF r.raised
          THEN pc' = "raised" /\ UNCHANGED success
          ELSE pc' = "returned" /\ success' = (IF ok THEN "True" ELSE "False")
    /\ UNCHANGED <<mode, env, price_data, exit_code, cycles, cg_resp, dia_resp,
                   cycle_start, interrupted, change_data, message>>

----------------------------------------------------------------------------
(* main: the single-run entry point *)

\* a main that insists on the token only
config_present_token_only(e) == e.TG_TOKEN

\* both os.environ lookups of main succeed
config_present(e) == e.TG_TOKEN /\ e.TG_CHAT_ID

\* a main whose exception handler logs and falls through
exit_status_swallowed(raised, ok) ==
    IF raised THEN 0 ELSE IF ok THEN 0 ELSE 1

\* the status main leaves the process with
exit_status(raised, ok) ==
    IF raised THEN 1        \* except Exception: raise SystemExit(1)
    ELSE IF ok THEN 0       \* main returns
    ELSE 1                  \* if not ok: raise SystemExit(1)

\* the environments main may be started in: each variable set or not
Environments == [TG_TOKEN : BOOLEAN, TG_CHAT_ID : BOOLEAN]

Main(e) ==
    /\ pc = "boot"
    /\ mode' = "single"
    /\ env' = Some(e)
    /\ IF config_present(e)
       THEN /\ BeginCycle
            /\ cycle_start' = botState
            /\ UNCHANGED exit_code
       ELSE /\ pc' = "exited"       \* KeyError leaves main uncaught
            /\ exit_code' = Some(1)
            /\ UNCHANGED <<price_data, success, cycles, requests, cg_resp,
                           dia_resp, cycle_start, change_data, message,
                           tg_resp, delivered>>
    /\ UNCHANGED <<previous_price, price_history, now, interrupted>>

MainFinish ==
    /\ mode = "single"
    /\ pc \in {"returned", "raised"}
    /\ pc' = "exited"
    /\ exit_code' = Some(exit_status(pc = "raised", success = "True"))
    /\ UNCHANGED <<mode, env, previous_price, price_history, price_data, success,
                   cycles, now, requests, cg_resp, dia_resp, cycle_start,
                   interrupted, change_data, message, tg_resp, delivered>>

----------------------------------------------------------------------------
(* run_continuous: the sleep loop *)

RunContinuous ==
    /\ pc = "boot"
    /\ mode' = "continuous"
    /\ pc' = "loop"
    /\ UNCHANGED <<env, previous_price, price_history, price_data, success,
                   exit_code, cycles, now, requests, cg_resp, dia_resp,
                   cycle_start, interrupted, change_data, message, tg_resp,
                   delivered>>

\* while True: try: self.run_price_check()
LoopIterate(limit) ==
    /\ pc = "loop"
    /\ cycles < limit
    /\ BeginCycle
    /\ cycle_start' = botState
    /\ UNCHANGED <<mode, env, previous_price, price_history, exit_code, now,
                   interrupted>>

\* run_price_check is left (by return or by exception): its frame is gone
LeaveCycle ==
    /\ price_data' = None
    /\ success' = "unset"
    /\ requests' = <<>>
    /\ cg_resp' = None
    /\ dia_resp' = None
    /\ change_data' = None
    /\ message' = None
    /\ tg_resp' = None
    /\ delivered' = FALSE
    /\ cycle_start' = botState

\* run_price_check returned: time.sleep(interval_seconds) begins
SleepInterval ==
    /\ mode = "continuous"
    /\ pc = "returned"
    /\ pc' = "sleep_interval"
    /\ LeaveCycle
    /\ UNCHANGED <<mode, env, previous_price, price_history, exit_code, cycles,
                   now, interrupted>>

\* time.sleep(interval_seconds) ends: back to while True
WakeInterval ==
    /\ mode = "continuous"
    /\ pc = "sleep_interval"
    /\ pc' = "loop"
    /\ UNCHANGED <<mode, env, previous_price, price_history, price_data, success,
                   exit_code, cycles, now, requests, cg_resp, dia_resp,
                   cycle_start, interrupted, change_data, message, tg_resp,
                   delivered>>

\* a loop without the except Exception clause: the exception leaves it
CatchException_Absent ==
    /\ mode = "continuous"
    /\ pc = "raised"
    /\ pc' = "crashed"
    /\ LeaveCycle
    /\ UNCHANGED <<mode, env, previous_price, price_history, exit_code, cycles,
                   now, interrupted>>

\* except Exception: log, then time.sleep(60) begins
CatchException ==
    /\ mode = "continuous"
    /\ pc = "raised"
    /\ pc' = "sleep_cooldown"
    /\ LeaveCycle
    /\ UNCHANGED <<mode, env, previous_price, price_history, exit_code, cycles,
                   now, interrupted>>

\* time.sleep(60) ends: back to while True
WakeCooldown ==
    /\ mode = "continuous"
    /\ pc = "sleep_cooldown"
    /\ pc' = "loop"
    /\ UNCHANGED <<mode, env, previous_price, price_history, price_data, success,
                   exit_code, cycles, now, requests, cg_resp, dia_resp,
                   cycle_start, interrupted, change_data, message, tg_resp,
                   delivered>>

\* where a KeyboardInterrupt raised at position `at` takes run_continuous:
\* inside the try body the except KeyboardInterrupt clause breaks out of the
\* loop; inside the except Exception handler no clause of the same try
\* statement applies and the interrupt leaves run_continuous uncaught
interrupt_outcome(at) ==
    IF at \in {"fetch", "send", "returned", "sleep_interval"}
    THEN "stopped"
    ELSE "crashed"

KeyboardInterrupt ==
    /\ mode = "continuous"
    /\ pc \in {"fetch", "send", "returned", "sleep_interval", "sleep_cooldown"}
    /\ pc' = interrupt_outcome(pc)
    /\ interrupted' = TRUE
    /\ UNCHANGED <<mode, env, previous_price, price_history, price_data, success,
                   exit_code, cycles, now, requests, cg_resp, dia_resp,
                   cycle_start, change_data, message, tg_resp, delivered>>

----------------------------------------------------------------------------
(* Specifications *)

Next ==
    \/ \E e \in Environments : Main(e)
    \/ MainFinish
    \/ RunContinuous
    \/ LoopIterate(MaxCycles)
    \/ \E cg \in CGResponses, dia \in DIAResponses : RunPriceCheck_Fetch(cg, dia)
    \/ \E tg \in TGResponses : \E d \in Deliveries(tg) : RunPriceCheck_Send(tg, d)
    \/ SleepInterval
    \/ WakeInterval
    \/ CatchException
    \/ WakeCooldown
    \/ KeyboardInterrupt

Spec == Init /\ [][Next]_vars

\* A second specification for the history bound: the same program run for
\* more than HISTORY_LIMIT cycles, against sources whose answer is a fixed
\* function of the number of messages sent so far: the price follows PriceAt,
\* and CoinGecko serves the price only after an even number of messages (DIA
\* serves it otherwise).  Any cycle may still fail or raise.
PriceAt(t) == IF t % 3 = 0 THEN 27500 ELSE IF t % 3 = 1 THEN 25000 ELSE 0

CGScript ==
    {[kind |-> "asset_not_object", fields |-> NoFields]}
    \cup (IF now % 2 = 0
          THEN {CGObject(Some(PriceAt(now)), None, None, None)}
          ELSE {[kind |-> "transport_error", fields |-> NoFields]})

DIAScript ==
    {[kind |-> "http_error", Price |-> None, VolumeYesterdayUSD |-> None],
     DIAObject(PriceAt(now), None)}

TGScript == {"ok_true", "http_error", "not_object"}

NextHist ==
    \/ \E e \in Environments : Main(e)
    \/ MainFinish
    \/ RunContinuous
    \/ LoopIterate(HISTORY_LIMIT + Slack)
    \/ \E cg \in CGScript, dia \in DIAScript : RunPriceCheck_Fetch(cg, dia)
    \/ \E tg \in TGScript : \E d \in Deliveries(tg) : RunPriceCheck_Send(tg, d)
    \/ SleepInterval
    \/ WakeInterval
    \/ CatchException
    \/ WakeCooldown
    \/ KeyboardInterrupt

SpecHist == Init /\ [][NextHist]_vars

\* A third specification for the arithmetic and the formatting: the same
\* program run for a few cycles against sources that report a wider range of
\* prices (negative, zero, below and above one USD) and nothing optional.
MaxWideCycles == 2

WidePriceSet == {-25000, 0, 25000, 27500, 850000, 1234500}

CGWide ==
    {[kind |-> k, fields |-> NoFields] : k \in {"http_error", "not_container"}}
    \cup {CGObject(Some(p), None, None, None) : p \in WidePriceSet}

DIAWide ==
    {[kind |-> "no_price_key", Price |-> None, VolumeYesterdayUSD |-> None]}
    \cup {DIAObject(p, None) : p \in WidePriceSet}

NextWide ==
    \/ \E e \in Environments : Main(e)
    \/ MainFinish
    \/ RunContinuous
    \/ LoopIterate(MaxWideCycles)
    \/ \E cg \in CGWide, dia \in DIAWide : RunPriceCheck_Fetch(cg, dia)
    \/ \E tg \in TGResponses : \E d \in Deliveries(tg) : RunPriceCheck_Send(tg, d)
    \/ SleepInterval
    \/ WakeInterval
    \/ CatchException
    \/ WakeCooldown
    \/ KeyboardInterrupt

SpecWide == Init /\ [][NextWide]_vars

----------------------------------------------------------------------------
(* Properties *)

Range(q) == {q[i] : i \in 1..Len(q)}

Count(q, x) == Cardinality({i \in 1..Len(q) : q[i] = x})

Min(a, b) == IF a < b THEN a ELSE b

\* the answer of a source adapter is "failed": it returned None
Failed(r) == ~r.raised /\ r.value = None

\* C1: previous_price and price_history change only in the step in which
\* send_telegram_message reports success, and in a cycle in which it reports
\* failure (success = "False") they are what they were when the cycle began.
C1_StateChangesOnlyOnSuccessfulSend ==
    [][ /\ (botState' # botState
              => pc = "send" /\ pc' = "returned" /\ success' = "True")
        /\ (success' = "False" => botState' = cycle_start') ]_vars

\* a cycle that reached the send, got a failure from it, and had state to lose
C1_Witness ==
    /\ pc = "returned"
    /\ success = "False"
    /\ "Telegram" \in Range(requests)
    /\ Len(price_history) = 2

C3_HistoryBoundedFifo ==
    /\ Len(price_history) <= HISTORY_LIMIT
    /\ Len(price_history) = Min(now, HISTORY_LIMIT)
    /\ \A i \in 1..Len(price_history) :
          price_history[i].timestamp = now - Len(price_history) + i

\* two entries have been evicted from a full history
C3_Witness ==
    /\ now = HISTORY_LIMIT + 2
    /\ Len(price_history) = HISTORY_LIMIT
    /\ price_history[1].timestamp = 3
    /\ price_history[HISTORY_LIMIT].timestamp = HISTORY_LIMIT + 2

\* the failures of the primary source listed by C4
ListedPrimaryFailure(resp) ==
    \/ resp.kind \in {"transport_error", "http_error", "unparsable", "no_asset_key"}
    \/ resp.kind = "asset_object" /\ resp.fields.usd = None

\* C4: once CoinGecko has answered with a transport error, a non-2xx status,
\* an unparsable body, or a body lacking the "iotex" key or its "usd" field,
\* DIA is requested in the same cycle.
C4_ListedPrimaryFailureFallsBack ==
    (cg_resp # None /\ ListedPrimaryFailure(cg_resp[1]))
    => "DIA" \in Range(requests)

\* C5: the requests of a cycle are CoinGecko, then DIA at most once, then
\* Telegram at most once; CoinGecko is requested exactly once in every cycle
\* that got past the fetch; DIA is requested only if the CoinGecko adapter
\* returned None, and never when it returned a snapshot.
C5_EachSourceOncePrimaryFirst ==
    /\ requests \in {<<>>, <<"CoinGecko">>, <<"CoinGecko", "DIA">>,
                     <<"CoinGecko", "Telegram">>,
                     <<"CoinGecko", "DIA", "Telegram">>}
    /\ pc \in {"send", "returned", "raised"} => Count(requests, "CoinGecko") = 1
    /\ "DIA" \in Range(requests)
          => cg_resp # None /\ Failed(get_iotex_price_coingecko(cg_resp[1]))
    /\ (cg_resp # None /\ ~Failed(get_iotex_price_coingecko(cg_resp[1])))
          => "DIA" \notin Range(requests)

\* a cycle that asked CoinGecko, then DIA, then posted
C5_Witness ==
    /\ pc = "returned"
    /\ requests = <<"CoinGecko", "DIA", "Telegram">>

\* C6: no exception leaves get_current_price: a cycle is never in the raised
\* position before it has reached the send.
C6_NoExceptionEscapesFetch ==
    ~(pc = "raised" /\ "Telegram" \notin Range(requests))

\* C7: main runs exactly one cycle when the configuration is present, never
\* more than one, and exits with status 0 if run_price_check returned True
\* and with status 1 if it returned False or raised.
C7_SingleRunExitStatus ==
    mode = "single" =>
        /\ cycles <= 1
        /\ pc = "exited" =>
              /\ exit_code = Some(IF success = "True" THEN 0 ELSE 1)
              /\ (env[1].TG_TOKEN /\ env[1].TG_CHAT_ID) => cycles = 1

\* main has exited with status 0 after its one cycle
C7_Witness ==
    /\ mode = "single"
    /\ pc = "exited"
    /\ cycles = 1
    /\ success = "True"
    /\ exit_code = Some(0)

\* C8: as long as no KeyboardInterrupt is delivered, run_continuous never
\* leaves its loop: a returned cycle is followed by the interval sleep and
\* the loop head, a raised cycle by the cool-down sleep and the loop head,
\* each of these steps can always be taken, and the loop head starts a cycle.
C8_LoopNeverStops ==
    /\ [](mode = "continuous" /\ ~interrupted =>
            /\ pc \in {"loop", "fetch", "send", "returned", "raised",
                       "sleep_interval", "sleep_cooldown"}
            /\ pc = "returned" => ENABLED SleepInterval
            /\ pc = "sleep_interval" => ENABLED WakeInterval
            /\ pc = "raised" => ENABLED CatchException
            /\ pc = "sleep_cooldown" => ENABLED WakeCooldown
            /\ (pc = "loop" /\ cycles < MaxCycles) => ENABLED LoopIterate(MaxCycles))
    /\ [][ (mode = "continuous" /\ ~interrupted') =>
            /\ pc = "returned" => pc' = "sleep_interval"
            /\ pc = "sleep_interval" => pc' = "loop"
            /\ pc = "raised" => pc' = "sleep_cooldown"
            /\ pc = "sleep_cooldown" => pc' = "loop"
            /\ pc = "loop" => pc' = "fetch" /\ cycles' = cycles + 1 ]_vars

\* a second cycle raised, and the loop is in its cool-down sleep
C8_Witness ==
    /\ mode = "continuous"
    /\ ~interrupted
    /\ pc = "sleep_cooldown"
    /\ cycles = 2

\* C9: a KeyboardInterrupt delivered anywhere in the loop ends run_continuous
\* by the break of its except KeyboardInterrupt clause.
C9_InterruptStopsCleanly ==
    (mode = "continuous" /\ interrupted) => pc = "stopped"

\* C10: when main finds TG_TOKEN or TG_CHAT_ID unset the process has exited
\* with status 1, no cycle was started and no request was issued.
C10_MissingConfigurationIsFatal ==
    (env # None /\ ~(env[1].TG_TOKEN /\ env[1].TG_CHAT_ID))
    => /\ pc = "exited"
       /\ exit_code = Some(1)
       /\ cycles = 0
       /\ requests = <<>>
       /\ cg_resp = None
       /\ dia_resp = None

\* main was started without TG_CHAT_ID and has exited
C10_Witness ==
    /\ pc = "exited"
    /\ env = Some([TG_TOKEN |-> TRUE, TG_CHAT_ID |-> FALSE])
    /\ exit_code = Some(1)

C12_DeliveredIffSuccess ==
    tg_resp # None =>
        /\ delivered <=> success = "True"
        /\ delivered => botState # cycle_start

\* C12 as amended: a reported success means the channel has the message, and
\* the state changes only with a message received; a non-2xx or "ok": false
\* answer means no message and a reported failure; a message received in a
\* cycle that did not report success goes with a lost or unreadable answer
\* and is left unrecorded.
C12_SuccessImpliesDelivered ==
    /\ success = "True" => delivered
    /\ botState # cycle_start => delivered /\ success = "True"
    /\ (tg_resp # None /\ tg_resp[1] \in {"http_error", "ok_false"})
          => ~delivered /\ success = "False"
    /\ (delivered /\ success # "True")
          => /\ tg_resp # None
             /\ tg_resp[1] \in {"transport_error", "unparsable", "not_object",
                                "ok_missing"}
             /\ botState = cycle_start

\* the answer timed out after the message reached the channel: the cycle
\* reports failure and the state of a bot with history is left as it was
C12_Witness ==
    /\ pc = "returned"
    /\ tg_resp = Some("transport_error")
    /\ delivered
    /\ success = "False"
    /\ Len(price_history) = 1
    /\ botState = cycle_start

\* the sign of a number as a trend
TrendOf(amount) ==
    IF amount > 0 THEN "up" ELSE IF amount < 0 THEN "down" ELSE "neutral"

\* C13: the change computed in a cycle is {0, 0, neutral} when the bot had no
\* previous price at the start of the cycle; otherwise its amount is current
\* minus previous and its trend is the sign of the amount (a tie is neutral).
C13_ChangeAmountAndTrend ==
    change_data # None =>
        LET c == change_data[1]
            cur == price_data[1].price
            prev == cycle_start[1]
        IN IF prev = None
           THEN /\ c.change_amount = 0
                /\ c.change_percentage.num = 0
                /\ c.trend = "neutral"
           ELSE /\ c.change_amount = cur - prev[1]
                /\ c.trend = TrendOf(cur - prev[1])
                /\ (cur = prev[1] => c.trend \notin {"up", "down"})

\* a cycle that fetched the price it already had
C13_Witness ==
    /\ pc = "send"
    /\ change_data # None
    /\ cycle_start[1] = Some(27500)
    /\ price_data[1].price = 27500
    /\ change_data[1].trend = "neutral"

RECURSIVE Gcd(_, _)
Gcd(a, b) == IF b = 0 THEN a ELSE Gcd(b, a % b)

\* a fraction with a positive denominator, in lowest terms
Reduced(f) ==
    LET g == Gcd(Abs(f.num), f.den) IN Fraction(f.num \div g, f.den \div g)

C15_SecondarySnapshotDefaults ==
    (dia_resp # None /\ dia_resp[1].kind = "object") =>
        /\ price_data # None
        /\ price_data[1].source = "DIA"
        /\ price_data[1].price = dia_resp[1].Price[1]
        /\ price_data[1].market_cap = 0
        /\ price_data[1].change_24h = 0
        /\ price_data[1].volume_24h =
              (IF dia_resp[1].VolumeYesterdayUSD = None
               THEN 0 ELSE dia_resp[1].VolumeYesterdayUSD[1])
        /\ pc # "raised" \/ "Telegram" \in Range(requests)

\* DIA answered a price without a volume and the cycle went on to the send
C15_Witness ==
    /\ pc = "send"
    /\ dia_resp # None
    /\ dia_resp[1].kind = "object"
    /\ dia_resp[1].VolumeYesterdayUSD = None
    /\ price_data # None
    /\ price_data[1].price = 25000
    /\ price_data[1].source = "DIA"
    /\ price_data[1].volume_24h = 0

\* C16: the message shows the price with 6 decimals when it is below 1.0 and
\* with 4 decimals when it is 1.0 or more, and formatting leaves the bot
\* state as it was.
C16_PrecisionByMagnitude ==
    message # None =>
        LET p == price_data[1].price IN
        /\ message[1].whole = Abs(p) \div Unit
        /\ message[1].decimals = (IF p < Unit THEN 6 ELSE 4)
        /\ pc = "send" => botState = cycle_start

\* C17: the change of a cycle is measured against the price of the last
\* entry the history held when the cycle began, that is, the price of the
\* most recent cycle whose send succeeded; with no such cycle it is the
\* neutral zero change.
C17_BaselineIsLastSuccessfulCycle ==
    change_data # None =>
        LET c == change_data[1]
            cur == price_data[1].price
            sent == cycle_start[2]
        IN IF sent = <<>>
           THEN c.change_amount = 0 /\ c.trend = "neutral"
           ELSE /\ c.change_amount = cur - sent[Len(sent)].price
                /\ c.trend = TrendOf(cur - sent[Len(sent)].price)

\* the third cycle follows one successful and one failed cycle and measures
\* its change against the one successful cycle
C17_Witness ==
    /\ pc = "send"
    /\ cycles = 3
    /\ Len(price_history) = 1
    /\ price_history[1].price = 25000
    /\ price_data[1].price = 27500
    /\ change_data[1].change_amount = 2500

\* C18: previous_price is None exactly when price_history is empty, and
\* otherwise it is the price of the last entry of price_history.
C18_PreviousPriceIsLastEntry ==
    /\ previous_price = None <=> price_history = <<>>
    /\ price_history # <<>>
          => previous_price = Some(price_history[Len(price_history)].price)

\* the history is full, has evicted an entry, and a later cycle has failed
C18_Witness ==
    /\ now = HISTORY_LIMIT + 1
    /\ Len(price_history) = HISTORY_LIMIT
    /\ previous_price = Some(PriceAt(HISTORY_LIMIT))
    /\ pc = "returned"
    /\ success = "False"

====
